---- MODULE Spec2Model ----
(***************************************************************************)
(* A model of src/src/dns-test.js (the catalog-driven revision, lines      *)
(* 485-965): the query catalog, computeKey, the UDP and TCP encoders, the   *)
(* work list built and shuffled by sendQueries, the UDP / TCP /            *)
(* host-resolver senders with their retry loops, and the orchestration in  *)
(* main and runMeasurement.  Spec is one run from a freshly loaded module, *)
(* LiveSpec that run under fair scheduling, RerunSpec a run that starts    *)
(* from the module state a finished run leaves, KeySpec the key function   *)
(* and the encoders over the whole catalog.                                *)
(* fetchTest is modelled with its body of lines 385-400, which lines       *)
(* 865-882 hold commented out.                                             *)
(*                                                                         *)
(* JavaScript values are modelled as follows.                              *)
(*   - an object used as a map (dnsData, dnsAttempts) is a function whose  *)
(*     DOMAIN is the set of properties present; a property that is absent  *)
(*     reads as undefined;                                                 *)
(*   - a number is [nan |-> FALSE, n |-> k]; NaN is [nan |-> TRUE, n |-> 0]*)
(*     (undefined + 1 and NaN + 1 are NaN);                                *)
(*   - strings are TLA+ strings, concatenated with \o as + does;           *)
(*   - an array of response bytes is a sequence; every array is truthy.    *)
(* Every await of the source is a suspension point, so an async function   *)
(* is one action per stretch of code between two awaits.                   *)
(***************************************************************************)
EXTENDS Naturals, Sequences, FiniteSets, TLC

(***************************************************************************)
(* Bounds of the model.                                                    *)
(***************************************************************************)
\* The longest nameserver list the OS collaborator returns.
MaxNameservers == 2
\* The number of round trips the environment lets fail in one run.
MaxFailures == 4

(***************************************************************************)
(* Program constants.                                                      *)
(***************************************************************************)
APEX_DOMAIN_NAME == "dnssec-experiment-moz.net"
SMIMEA_PREFIX == "9f86d081884c7d659a2feaa0c55ad015a3bf4f1b2b0b822cd15d6c15."
HTTPS_PREFIX == "httpssvc."
PER_CLIENT_PREFIX == "pc."

RESOLVCONF_ATTEMPTS == 2

\* One catalog entry; a property the literal leaves out (noedns0) is
\* undefined, which every test of it treats as false.
Query(rrtype, prefix, dnssec_ok, checking_disabled, noedns0) ==
    [rrtype |-> rrtype, prefix |-> prefix, dnssec_ok |-> dnssec_ok,
     checking_disabled |-> checking_disabled, noedns0 |-> noedns0]

COMMON_QUERIES ==
    << Query("SMIMEA", SMIMEA_PREFIX, FALSE, FALSE, FALSE),
       Query("HTTPS", HTTPS_PREFIX, FALSE, FALSE, FALSE),
       Query("A", "", FALSE, FALSE, FALSE),
       Query("A", "", FALSE, FALSE, TRUE),
       Query("A", "", FALSE, TRUE, FALSE),
       Query("A", "", TRUE, FALSE, FALSE),
       Query("A", "", TRUE, TRUE, FALSE),
       Query("DNSKEY", "", FALSE, FALSE, FALSE),
       Query("RRSIG", "", FALSE, FALSE, FALSE),
       Query("NEWONE", "", FALSE, FALSE, FALSE),
       Query("NEWTWO", "", FALSE, FALSE, FALSE),
       Query("NEWTHREE", "", FALSE, FALSE, FALSE),
       Query("NEWFOUR", "", FALSE, FALSE, FALSE) >>

STUDY_START == "STUDY_START"
STUDY_MEASUREMENT_COMPLETED == "STUDY_MEASUREMENT_COMPLETED"
STUDY_ERROR_UDP_WEBEXT == "STUDY_ERROR_UDP_WEBEXT"
STUDY_ERROR_UDP_MISC == "STUDY_ERROR_UDP_MISC"
STUDY_ERROR_TCP_MISC == "STUDY_ERROR_TCP_MISC"
STUDY_ERROR_UDP_ENCODE == "STUDY_ERROR_UDP_ENCODE"
STUDY_ERROR_TCP_ENCODE == "STUDY_ERROR_TCP_ENCODE"
STUDY_ERROR_NAMESERVERS_OS_NOT_SUPPORTED == "STUDY_ERROR_NAMESERVERS_OS_NOT_SUPPORTED"
STUDY_ERROR_NAMESERVERS_NOT_FOUND == "STUDY_ERROR_NAMESERVERS_NOT_FOUND"
STUDY_ERROR_NAMESERVERS_INVALID_ADDR == "STUDY_ERROR_NAMESERVERS_INVALID_ADDR"
STUDY_ERROR_NAMESERVERS_MISC == "STUDY_ERROR_NAMESERVERS_MISC"
STUDY_ERROR_CAPTIVE_PORTAL_FAILED == "STUDY_ERROR_CAPTIVE_PORTAL_FAILED"
STUDY_ERROR_CAPTIVE_PORTAL_API_DISABLED == "STUDY_ERROR_CAPTIVE_PORTAL_API_DISABLED"
STUDY_ERROR_TELEMETRY_CANT_UPLOAD == "STUDY_ERROR_TELEMETRY_CANT_UPLOAD"
STUDY_ERROR_FETCH_FAILED == "STUDY_ERROR_FETCH_FAILED"
STUDY_ERROR_FETCH_NOT_MATCHED == "STUDY_ERROR_FETCH_NOT_MATCHED"

\* The key sendUDPWebExtQuery files the host-resolver (baseline) query under.
WEBEXT_KEY == "udpAWebExt"

(***************************************************************************)
(* JavaScript values.                                                      *)
(***************************************************************************)
Num(k) == [nan |-> FALSE, n |-> k]
NaN == [nan |-> TRUE, n |-> 0]
EmptyObject == [k \in {} |-> NaN]

\* obj[key] += 1 on numbers: undefined + 1 and NaN + 1 are NaN.
PlusOne(obj, key) ==
    IF key \notin DOMAIN obj THEN NaN
    ELSE IF obj[key].nan THEN NaN
    ELSE Num(obj[key].n + 1)

\* obj[key] = value
SetProp(obj, key, value) ==
    [k \in DOMAIN obj \cup {key} |-> IF k = key THEN value ELSE obj[k]]

\* !obj[key] for a map of numbers: the property is absent, NaN or 0.
FalsyNumber(obj, key) ==
    IF key \notin DOMAIN obj THEN TRUE ELSE obj[key].nan \/ obj[key].n = 0

\* !obj[key] for a map of arrays: an array, even an empty one, is truthy.
FalsyArray(obj, key) == key \notin DOMAIN obj

\* What a nameserver answers: opaque bytes, different for each nameserver.
ResponseBytes(nameserver) == <<nameserver>>
\* What browser.dns.resolve answers (response.addresses).
WebExtAddresses == <<"34.120.4.181">>

(***************************************************************************)
(* encodeUDPQuery (lines 570-594) and encodeTCPQuery (lines 599-622).  The *)
(* value modelled is the packet object handed to DNS_PACKET.encode /       *)
(* DNS_PACKET.streamEncode, which serialise it as given; a property the    *)
(* source leaves out of an object literal is absent from the record.  The  *)
(* header flags are numbers combined with |, as in the source.             *)
(***************************************************************************)
MAX_TXID == 65535
MIN_TXID == 0
UDP_PAYLOAD_SIZE == 4096

\* The flag bits of dns-packet: RECURSION_DESIRED = 1 << 8,
\* CHECKING_DISABLED = 1 << 4, DNSSEC_OK = 1 << 15.
RECURSION_DESIRED == 256
CHECKING_DISABLED == 16
DNSSEC_OK == 32768

\* a | b on non-negative integers.
RECURSIVE BitOr(_, _)
BitOr(a, b) ==
    IF a = 0 THEN b
    ELSE IF b = 0 THEN a
    ELSE (IF a % 2 = 1 \/ b % 2 = 1 THEN 1 ELSE 0) + 2 * BitOr(a \div 2, b \div 2)

\* The values Math.floor(Math.random() * (MAX_TXID - MIN_TXID + 1)) + MIN_TXID
\* is drawn from here: both ends of the range and one value inside it.
TxIds == {MIN_TXID, 4660, MAX_TXID}

\* No encoder has been called.
NoPacket == [type |-> "none"]

\* encodeUDPQuery building its OPT record from noedns0 alone.
encodeUDPQuery_IgnoresDO(domain, rrtype, dnssec_ok, checking_disabled, noedns0, id) ==
    LET flags0 == RECURSION_DESIRED
        questions == << [type |-> rrtype, name |-> domain] >>
        additionals == IF noedns0 THEN <<>>
                       ELSE << [type |-> "OPT", name |-> ".",
                                udpPayloadSize |-> UDP_PAYLOAD_SIZE] >>
        flags == IF checking_disabled THEN BitOr(flags0, CHECKING_DISABLED) ELSE flags0
    IN [type |-> "query", id |-> id, flags |-> flags, questions |-> questions,
        additionals |-> additionals]

encodeUDPQuery(domain, rrtype, dnssec_ok, checking_disabled, noedns0, id) ==
    LET flags0 == RECURSION_DESIRED
        questions == << [type |-> rrtype, name |-> domain] >>
        additionals0 == IF noedns0 THEN <<>>
                        ELSE << [type |-> "OPT", name |-> ".",
                                 udpPayloadSize |-> UDP_PAYLOAD_SIZE] >>
        flags == IF checking_disabled THEN BitOr(flags0, CHECKING_DISABLED) ELSE flags0
        additionals == IF dnssec_ok
                       THEN << [type |-> "OPT", name |-> ".",
                                udpPayloadSize |-> UDP_PAYLOAD_SIZE, flags |-> DNSSEC_OK] >>
                       ELSE additionals0
    IN [type |-> "query", id |-> id, flags |-> flags, questions |-> questions,
        additionals |-> additionals]

\* additionals is null unless dnssec_ok; the library encodes
\* (additionals || []), so null is modelled as the empty list.
encodeTCPQuery(domain, rrtype, dnssec_ok, checking_disabled, id) ==
    LET flags0 == RECURSION_DESIRED
        questions == << [type |-> rrtype, name |-> domain] >>
        flags == IF checking_disabled THEN BitOr(flags0, CHECKING_DISABLED) ELSE flags0
        additionals == IF dnssec_ok
                       THEN << [type |-> "OPT", name |-> ".", flags |-> DNSSEC_OK] >>
                       ELSE <<>>
    IN [type |-> "query", id |-> id, flags |-> flags, questions |-> questions,
        additionals |-> additionals]

(***************************************************************************)
(* computeKey (lines 798-815).                                             *)
(***************************************************************************)
\* computeKey with the noedns0 suffix appended before the per-client one.
computeKey_NBeforeU(transport, args, perClient) ==
    LET tmp0 == transport \o args.rrtype
        tmp1 == IF args.dnssec_ok THEN tmp0 \o "DO" ELSE tmp0
        tmp2 == IF args.checking_disabled THEN tmp1 \o "CD" ELSE tmp1
        tmp3 == IF args.noedns0 THEN tmp2 \o "-N" ELSE tmp2
        tmp4 == IF perClient THEN tmp3 \o "-U" ELSE tmp3
    IN tmp4

\* computeKey without the noedns0 suffix.
computeKey_DropsN(transport, args, perClient) ==
    LET tmp0 == transport \o args.rrtype
        tmp1 == IF args.dnssec_ok THEN tmp0 \o "DO" ELSE tmp0
        tmp2 == IF args.checking_disabled THEN tmp1 \o "CD" ELSE tmp1
        tmp3 == IF perClient THEN tmp2 \o "-U" ELSE tmp2
    IN tmp3

computeKey(transport, args, perClient) ==
    LET tmp0 == transport \o args.rrtype
        tmp1 == IF args.dnssec_ok THEN tmp0 \o "DO" ELSE tmp0
        tmp2 == IF args.checking_disabled THEN tmp1 \o "CD" ELSE tmp1
        tmp3 == IF perClient THEN tmp2 \o "-U" ELSE tmp2
        tmp4 == IF args.noedns0 THEN tmp3 \o "-N" ELSE tmp3
    IN tmp4

(***************************************************************************)
(* The work list of sendQueries (lines 824-845).  A work item is the       *)
(* closure pushed on queries: the sender it calls and the arguments it     *)
(* captured.  perClient is not captured: it records the third argument of  *)
(* the computeKey call that made the item's key.                           *)
(***************************************************************************)
WebExtItem == [kind |-> "webext", domain |-> APEX_DOMAIN_NAME]

\* The work items of one catalog entry with the per-client names built
\* without PER_CLIENT_PREFIX.
QueryItems_NoPerClientPrefix(query) ==
    LET queryName == query.prefix \o APEX_DOMAIN_NAME
        keyU == computeKey("udp", query, TRUE)
        queryNameU == query.prefix \o keyU \o "." \o APEX_DOMAIN_NAME
        keyT == computeKey("tcp", query, TRUE)
        queryNameT == query.prefix \o keyU \o "." \o APEX_DOMAIN_NAME
    IN << [kind |-> "udp", key |-> computeKey("udp", query, FALSE),
           domain |-> queryName, query |-> query, perClient |-> FALSE],
          [kind |-> "tcp", key |-> computeKey("tcp", query, FALSE),
           domain |-> queryName, query |-> query, perClient |-> FALSE],
          [kind |-> "udp", key |-> keyU,
           domain |-> queryNameU, query |-> query, perClient |-> TRUE],
          [kind |-> "tcp", key |-> keyT,
           domain |-> queryNameT, query |-> query, perClient |-> TRUE] >>

QueryItems(query) ==
    LET queryName == query.prefix \o APEX_DOMAIN_NAME
        keyU == computeKey("udp", query, TRUE)
        queryNameU == query.prefix \o keyU \o "." \o PER_CLIENT_PREFIX \o APEX_DOMAIN_NAME
        keyT == computeKey("tcp", query, TRUE)
        queryNameT == query.prefix \o keyU \o "." \o PER_CLIENT_PREFIX \o APEX_DOMAIN_NAME
    IN << [kind |-> "udp", key |-> computeKey("udp", query, FALSE),
           domain |-> queryName, query |-> query, perClient |-> FALSE],
          [kind |-> "tcp", key |-> computeKey("tcp", query, FALSE),
           domain |-> queryName, query |-> query, perClient |-> FALSE],
          [kind |-> "udp", key |-> keyU,
           domain |-> queryNameU, query |-> query, perClient |-> TRUE],
          [kind |-> "tcp", key |-> keyT,
           domain |-> queryNameT, query |-> query, perClient |-> TRUE] >>

RECURSIVE PushQueries(_, _)
PushQueries(catalog, k) ==
    IF k = 0 THEN <<WebExtItem>>
    ELSE PushQueries(catalog, k - 1) \o QueryItems(catalog[k])

BuildQueries(catalog) == PushQueries(catalog, Len(catalog))

\* The key a work item counts its attempts and files its answer under.
ItemKey(item) == IF item.kind = "webext" THEN WEBEXT_KEY ELSE item.key

(***************************************************************************)
(* shuffleArray (lines 556-565).  rnd[c] is the value of                   *)
(* Math.floor(Math.random() * currentIndex) drawn when currentIndex = c,   *)
(* so 0 <= rnd[c] < c.  Arrays are 0-based in the source and 1-based here. *)
(***************************************************************************)
\* The swap of line 563 writing one of the two elements only.
Swap_CopiesOver(array, a, b) ==
    [x \in DOMAIN array |-> IF x = a THEN array[b] ELSE array[x]]

Swap(array, a, b) ==
    [x \in DOMAIN array |-> IF x = a THEN array[b] ELSE IF x = b THEN array[a] ELSE array[x]]

RECURSIVE ShuffleLoop(_, _, _)
ShuffleLoop(array, currentIndex, rnd) ==
    IF currentIndex = 0 THEN array
    ELSE ShuffleLoop(Swap(array, currentIndex, rnd[currentIndex] + 1),
                     currentIndex - 1, rnd)

\* A shuffle that fills every position with the element at a position
\* drawn for it, where shuffleArray swaps the two.
shuffleArray_Samples(array, rnd) ==
    [x \in DOMAIN array |-> array[rnd[x] + 1]]

shuffleArray(array, rnd) == ShuffleLoop(array, Len(array), rnd)

\* Every outcome of the random draws of one shuffle of n elements.
RandomDraws(n) == { rnd \in [1..n -> 0..(n - 1)] : \A c \in 1..n : rnd[c] < c }

(***************************************************************************)
(* The environment.                                                        *)
(***************************************************************************)
\* The addresses a resolver configuration may hold, in priority order.
Addresses == <<"172.19.134.11", "172.19.134.12", "172.19.134.13", "172.19.134.14">>
NotAnAddress == "not-an-ip"

\* IP_REGEX({exact: true}).test(nameserver)
IsIP(nameserver) == \E k \in DOMAIN Addresses : Addresses[k] = nameserver

\* The lists readNameserversMac / readNameserversWin may return.
NameserverLists ==
    { SubSeq(Addresses, 1, k) : k \in 0..MaxNameservers }
        \cup { Append(SubSeq(Addresses, 1, k), NotAnAddress) : k \in 0..(MaxNameservers - 1) }

\* The messages of the errors a failed round trip may carry.
RejectMessages == {"STUDY_ERROR_UDP_TIMEOUT", "STUDY_ERROR_TCP_TIMEOUT", "NetworkError"}

\* e.message.startsWith(tag), for the messages of this model.
StartsWith(message, tag) ==
    /\ Len(message) >= Len(tag)
    /\ SubSeq(message, 1, Len(tag)) = tag

\* The slice of COMMON_QUERIES the run specification sweeps: the catalog
\* entry with the most key suffixes (rrtype A with noedns0).  With the
\* baseline item it gives a work list of five items with five keys.
Catalog == <<COMMON_QUERIES[4]>>

(***************************************************************************)
(* State.                                                                  *)
(***************************************************************************)
VARIABLES
    pc,             \* where the run is suspended (the await it waits on)
    measurementID,  \* var measurementID
    dnsData,        \* var dnsData
    dnsAttempts,    \* var dnsAttempts
    listening,      \* the onConnectivityAvailable listener is registered
    nameservers,    \* nameservers_ipv4 of runMeasurement
    queries,        \* the array queries of sendQueries
    qi,             \* position of the for-of loop over queries (1-based)
    i,              \* the pass counter i of sendUDPQuery
    n,              \* position of the for-of loop over nameservers (1-based)
    pings,          \* the payloads given to browser.telemetry.submitPing, in order
    sendLog,        \* the round trips issued, in order, with their outcome
    error,          \* the message of the Error that ended the run, or ""
    netError,       \* the message of the errors failed round trips carry in this run
    captiveStatus,  \* let captiveStatus of main ("undefined" until getState resolves)
    listenerCalls,  \* how many times the function listener of main has been called
    runs,           \* how many times runMeasurement has been called
    details,        \* details.status of the call of runMeasurement ("undefined" before it)
    fetchLog,       \* the outcomes of the calls of fetchTest, in order
    readFailure,    \* what made readNameservers fail, or NoFailure
    keyCall,        \* the arguments of a call of computeKey, or NoCall
    keyResult,      \* what that call returned, or "" before it returns
    queryBuf        \* the packet an encoder called with these arguments built, or NoPacket

\* The variables of a call of computeKey, and of an encoder, on its own.
keyVars == <<keyCall, keyResult, queryBuf>>

\* What main has read and called so far.
mainVars == <<captiveStatus, listenerCalls, runs, details>>

vars == <<pc, measurementID, dnsData, dnsAttempts, listening, nameservers,
          queries, qi, i, n, pings, sendLog, error, netError, keyCall, keyResult,
          queryBuf, captiveStatus, listenerCalls, runs, details, fetchLog, readFailure>>

\* readNameservers has not failed.
NoFailure == [cause |-> "", message |-> ""]

NoCall == [transport |-> "", args |-> Query("", "", FALSE, FALSE, FALSE), perClient |-> FALSE]

Init ==
    /\ pc = "main"
    /\ measurementID = "undefined"
    /\ dnsData = EmptyObject
    /\ dnsAttempts = EmptyObject
    /\ listening = FALSE
    /\ nameservers = <<>>
    /\ queries = <<>>
    /\ qi = 0
    /\ i = 0
    /\ n = 0
    /\ pings = <<>>
    /\ sendLog = <<>>
    /\ error = ""
    /\ netError \in RejectMessages
    /\ keyCall = NoCall
    /\ keyResult = ""
    /\ queryBuf = NoPacket
    /\ captiveStatus = "undefined"
    /\ listenerCalls = 0
    /\ runs = 0
    /\ details = "undefined"
    /\ fetchLog = <<>>
    /\ readFailure = NoFailure

\* sendTelemetry (lines 858-863): the payload gets the run identifier and
\* is submitted.
sendTelemetry(log, payload) ==
    Append(log, [measurementID |-> measurementID] @@ payload)

\* throw new Error(message) that nothing catches: the run ends.
Throw(message) ==
    /\ pc' = "thrown"
    /\ error' = message

\* The failed round trips so far.
Failures == Cardinality({ k \in DOMAIN sendLog : sendLog[k].result = "fail" })

\* The round trip in flight is the last one issued.
Settle(result) == [sendLog EXCEPT ![Len(sendLog)].result = result]

(***************************************************************************)
(* fetchTest (lines 385-400).  In the revision of lines 865-882 the same   *)
(* body is commented out ("the test page is down. Uncomment this"), which  *)
(* leaves the passing outcome only.                                        *)
(***************************************************************************)
\* How the fetch of the test page may settle: it rejects, or it resolves
\* with the expected body or with another one.
FetchOutcomes ==
    { [rejected |-> TRUE, text |-> ""],
      [rejected |-> FALSE, text |-> "Hello, world!\n"],
      [rejected |-> FALSE, text |-> "<html>Sign in to the network</html>"] }

\* fetchTest accepting whatever body the page answers with.
fetchTest_AnyBody(outcome) ==
    IF outcome.rejected THEN STUDY_ERROR_FETCH_FAILED
    ELSE ""

\* The message of the error fetchTest throws (after a ping with that
\* reason), or "" when it returns.
fetchTest(outcome) ==
    IF outcome.rejected THEN STUDY_ERROR_FETCH_FAILED
    ELSE IF outcome.text # "Hello, world!\n" THEN STUDY_ERROR_FETCH_NOT_MATCHED
    ELSE ""

(***************************************************************************)
(* main (lines 930-963) and runMeasurement (lines 887-925).                *)
(***************************************************************************)
\* main up to its first await: the run identifier is rolled.
Main ==
    /\ pc = "main"
    /\ measurementID' = "uuid"
    /\ pc' = "canUpload"
    /\ UNCHANGED <<dnsData, dnsAttempts, listening, nameservers, queries, qi, i, n,
                   pings, sendLog, error>>
    /\ UNCHANGED <<netError, keyVars, mainVars, fetchLog, readFailure>>

\* main reporting the denial with a ping, as it does the other errors.
CanUploadReturns_PingsDenial ==
    /\ pc = "canUpload"
    /\ \E canUpload \in BOOLEAN :
          IF ~canUpload
          THEN /\ pings' = sendTelemetry(pings, [reason |-> STUDY_ERROR_TELEMETRY_CANT_UPLOAD])
               /\ Throw(STUDY_ERROR_TELEMETRY_CANT_UPLOAD)
          ELSE pc' = "getState" /\ UNCHANGED <<pings, error>>
    /\ UNCHANGED <<measurementID, dnsData, dnsAttempts, listening, nameservers,
                   queries, qi, i, n, sendLog>>
    /\ UNCHANGED <<netError, keyVars, mainVars, fetchLog, readFailure>>

\* browser.telemetry.canUpload() resolves.
CanUploadReturns ==
    /\ pc = "canUpload"
    /\ \E canUpload \in BOOLEAN :
          IF ~canUpload
          THEN Throw(STUDY_ERROR_TELEMETRY_CANT_UPLOAD)
          ELSE pc' = "getState" /\ UNCHANGED error
    /\ UNCHANGED <<measurementID, dnsData, dnsAttempts, listening, nameservers,
                   queries, qi, i, n, pings, sendLog>>
    /\ UNCHANGED <<netError, keyVars, mainVars, fetchLog, readFailure>>

\* runMeasurement without the test of lines 899-904: it goes on to
\* fetchTest whatever the status.
RunMeasurementEntry_AnyStatus(status) ==
    /\ runs' = runs + 1
    /\ details' = status
    /\ pc' = "fetchTest1"
    /\ UNCHANGED <<pings, error>>

\* runMeasurement up to its first await (lines 898-907): the captive-portal
\* status is checked and fetchTest is called.
RunMeasurementEntry(status) ==
    /\ runs' = runs + 1
    /\ details' = status
    /\ IF status \notin {"unlocked_portal", "not_captive", "clear"}
       THEN /\ pings' = sendTelemetry(pings, [reason |-> STUDY_ERROR_CAPTIVE_PORTAL_FAILED])
            /\ Throw(STUDY_ERROR_CAPTIVE_PORTAL_FAILED)
       ELSE /\ pc' = "fetchTest1"
            /\ UNCHANGED <<pings, error>>

\* main taking every state but unknown as connectivity: it calls
\* runMeasurement at once for locked_portal too.
GetStateReturns_OnlyUnknownWaits ==
    /\ pc = "getState"
    /\ \E state \in {"unknown", "not_captive", "unlocked_portal", "locked_portal", "rejected"} :
          IF state = "rejected"
          THEN /\ pings' = sendTelemetry(pings, [reason |-> STUDY_ERROR_CAPTIVE_PORTAL_API_DISABLED])
               /\ Throw(STUDY_ERROR_CAPTIVE_PORTAL_API_DISABLED)
               /\ UNCHANGED <<listening, captiveStatus, runs, details>>
          ELSE IF state \in {"unlocked_portal", "not_captive", "locked_portal"}
          THEN /\ captiveStatus' = state
               /\ RunMeasurementEntry(state)
               /\ UNCHANGED listening
          ELSE /\ captiveStatus' = state
               /\ listening' = TRUE
               /\ pc' = "returned"
               /\ UNCHANGED <<pings, error, runs, details>>
    /\ UNCHANGED <<measurementID, dnsData, dnsAttempts, nameservers, queries, qi, i, n,
                   sendLog>>
    /\ UNCHANGED <<netError, keyVars, listenerCalls, fetchLog, readFailure>>

\* browser.captivePortal.getState() settles (lines 942-962).
GetStateReturns ==
    /\ pc = "getState"
    /\ \E state \in {"unknown", "not_captive", "unlocked_portal", "locked_portal", "rejected"} :
          IF state = "rejected"
          THEN /\ pings' = sendTelemetry(pings, [reason |-> STUDY_ERROR_CAPTIVE_PORTAL_API_DISABLED])
               /\ Throw(STUDY_ERROR_CAPTIVE_PORTAL_API_DISABLED)
               /\ UNCHANGED <<listening, captiveStatus, runs, details>>
          ELSE IF state \in {"unlocked_portal", "not_captive"}
          THEN /\ captiveStatus' = state
               /\ RunMeasurementEntry(state)
               /\ UNCHANGED listening
          ELSE /\ captiveStatus' = state
               /\ listening' = TRUE
               /\ pc' = "returned"
               /\ UNCHANGED <<pings, error, runs, details>>
    /\ UNCHANGED <<measurementID, dnsData, dnsAttempts, nameservers, queries, qi, i, n,
                   sendLog>>
    /\ UNCHANGED <<netError, keyVars, listenerCalls, fetchLog, readFailure>>

\* The listener of main without its call of removeListener.
Listener_StaysRegistered ==
    /\ listening
    /\ listening' = TRUE
    /\ listenerCalls' = listenerCalls + 1
    /\ \E status \in {"captive", "clear"} : RunMeasurementEntry(status)
    /\ UNCHANGED <<measurementID, dnsData, dnsAttempts, nameservers, queries, qi, i, n,
                   sendLog>>
    /\ UNCHANGED <<netError, keyVars, captiveStatus, fetchLog, readFailure>>

\* The connectivity-available notification is delivered to the listener
\* (lines 959-962), which removes itself and calls runMeasurement.
Listener ==
    /\ listening
    /\ listening' = FALSE
    /\ listenerCalls' = listenerCalls + 1
    /\ \E status \in {"captive", "clear"} : RunMeasurementEntry(status)
    /\ UNCHANGED <<measurementID, dnsData, dnsAttempts, nameservers, queries, qi, i, n,
                   sendLog>>
    /\ UNCHANGED <<netError, keyVars, captiveStatus, fetchLog, readFailure>>

\* The connectivity-available notification comes again after the listener
\* has removed itself (line 960): the browser has no function of the
\* program to call, and nothing of the program's state changes.
NotificationDropped ==
    /\ ~listening
    /\ listenerCalls > 0
    /\ UNCHANGED <<pc, measurementID, dnsData, dnsAttempts, listening, nameservers,
                   queries, qi, i, n, pings, sendLog, error>>
    /\ UNCHANGED <<netError, keyVars, mainVars, fetchLog, readFailure>>

\* runMeasurement without the start ping of line 910.
FetchTestReturns_NoStartPing ==
    /\ pc = "fetchTest1"
    /\ \E outcome \in FetchOutcomes :
          /\ fetchLog' = Append(fetchLog, outcome)
          /\ IF fetchTest(outcome) # ""
             THEN /\ pings' = sendTelemetry(pings, [reason |-> fetchTest(outcome)])
                  /\ Throw(fetchTest(outcome))
             ELSE /\ pc' = "getPlatformInfo"
                  /\ UNCHANGED <<pings, error>>
    /\ UNCHANGED <<measurementID, dnsData, dnsAttempts, listening, nameservers, queries,
                   qi, i, n, sendLog>>
    /\ UNCHANGED <<netError, keyVars, mainVars, readFailure>>

\* The first fetchTest settles (line 907): when it returns, the start ping
\* is sent and readNameservers is called (lines 909-912).
FetchTestReturns ==
    /\ pc = "fetchTest1"
    /\ \E outcome \in FetchOutcomes :
          /\ fetchLog' = Append(fetchLog, outcome)
          /\ IF fetchTest(outcome) # ""
             THEN /\ pings' = sendTelemetry(pings, [reason |-> fetchTest(outcome)])
                  /\ Throw(fetchTest(outcome))
             ELSE /\ pings' = sendTelemetry(pings, [reason |-> STUDY_START])
                  /\ pc' = "getPlatformInfo"
                  /\ UNCHANGED error
    /\ UNCHANGED <<measurementID, dnsData, dnsAttempts, listening, nameservers, queries,
                   qi, i, n, sendLog>>
    /\ UNCHANGED <<netError, keyVars, mainVars, readFailure>>

(***************************************************************************)
(* readNameservers (lines 758-796).                                        *)
(***************************************************************************)
\* The catch clause of readNameservers (lines 770-779), given the pings
\* sent so far and the message of the error caught.
NameserversCatch(log, message) ==
    LET errorReason == IF StartsWith(message, "STUDY_ERROR_NAMESERVERS")
                       THEN message ELSE STUDY_ERROR_NAMESERVERS_MISC
    IN /\ pings' = sendTelemetry(log, [reason |-> errorReason])
       /\ Throw(errorReason)

\* browser.runtime.getPlatformInfo() settles (lines 761-769).
PlatformInfoReturns ==
    /\ pc = "getPlatformInfo"
    /\ \E os \in {"mac", "win", "linux", "rejected"} :
          IF os = "rejected"
          THEN /\ NameserversCatch(pings, "Error")
               /\ readFailure' = [cause |-> "getPlatformInfo rejected", message |-> "Error"]
          ELSE IF os \in {"mac", "win"}
          THEN pc' = "readNameserversOS" /\ UNCHANGED <<pings, error, readFailure>>
          ELSE /\ NameserversCatch(
                      sendTelemetry(pings, [reason |-> STUDY_ERROR_NAMESERVERS_OS_NOT_SUPPORTED]),
                      STUDY_ERROR_NAMESERVERS_OS_NOT_SUPPORTED)
               /\ readFailure' = [cause |-> "platform not supported", message |-> ""]
    /\ UNCHANGED <<measurementID, dnsData, dnsAttempts, listening, nameservers, queries,
                   qi, i, n, sendLog>>
    /\ UNCHANGED <<netError, keyVars, mainVars, fetchLog>>

\* readNameservers returning whatever list it was given, without the tests
\* of lines 781-792.
NameserversReturn_SkipsValidation ==
    /\ pc = "readNameserversOS"
    /\ \/ \E message \in {"Error", STUDY_ERROR_NAMESERVERS_NOT_FOUND} :
             /\ NameserversCatch(pings, message)
             /\ readFailure' = [cause |-> "collaborator rejected", message |-> message]
             /\ UNCHANGED nameservers
       \/ \E list \in NameserverLists :
             /\ nameservers' = list
             /\ pc' = "sendQueries"
             /\ UNCHANGED <<pings, error, readFailure>>
    /\ UNCHANGED <<measurementID, dnsData, dnsAttempts, listening, queries, qi, i, n,
                   sendLog>>
    /\ UNCHANGED <<netError, keyVars, mainVars, fetchLog>>

\* readNameserversMac / readNameserversWin settles (lines 763-765), and the
\* list is validated (lines 781-795).
NameserversReturn ==
    /\ pc = "readNameserversOS"
    /\ \/ \E message \in {"Error", STUDY_ERROR_NAMESERVERS_NOT_FOUND} :
             /\ NameserversCatch(pings, message)
             /\ readFailure' = [cause |-> "collaborator rejected", message |-> message]
             /\ UNCHANGED nameservers
       \/ \E list \in NameserverLists :
             IF Len(list) = 0
             THEN /\ pings' = sendTelemetry(pings, [reason |-> STUDY_ERROR_NAMESERVERS_NOT_FOUND])
                  /\ Throw(STUDY_ERROR_NAMESERVERS_NOT_FOUND)
                  /\ readFailure' = [cause |-> "empty list", message |-> ""]
                  /\ UNCHANGED nameservers
             ELSE IF \E k \in DOMAIN list : ~IsIP(list[k])
             THEN /\ pings' = sendTelemetry(pings, [reason |-> STUDY_ERROR_NAMESERVERS_INVALID_ADDR])
                  /\ Throw(STUDY_ERROR_NAMESERVERS_INVALID_ADDR)
                  /\ readFailure' = [cause |-> "invalid address", message |-> ""]
                  /\ UNCHANGED nameservers
             ELSE /\ nameservers' = list
                  /\ pc' = "sendQueries"
                  /\ UNCHANGED <<pings, error, readFailure>>
    /\ UNCHANGED <<measurementID, dnsData, dnsAttempts, listening, queries, qi, i, n,
                   sendLog>>
    /\ UNCHANGED <<netError, keyVars, mainVars, fetchLog>>

(***************************************************************************)
(* sendQueries (lines 822-852).                                            *)
(***************************************************************************)
\* The work list is built in catalog order and shuffled (lines 824-848).
SendQueries ==
    /\ pc = "sendQueries"
    /\ \E rnd \in RandomDraws(Len(BuildQueries(Catalog))) :
          queries' = shuffleArray(BuildQueries(Catalog), rnd)
    /\ qi' = 1
    /\ pc' = "forQueries"
    /\ UNCHANGED <<measurementID, dnsData, dnsAttempts, listening, nameservers, i, n,
                   pings, sendLog, error>>
    /\ UNCHANGED <<netError, keyVars, mainVars, fetchLog, readFailure>>

\* The work item the for-of loop of line 849 is at.
Item == queries[qi]
Key == ItemKey(Item)

\* await sendQuery() resolves: the loop moves to the next work item.
NextQuery ==
    /\ pc' = "forQueries"
    /\ qi' = qi + 1
    /\ i' = 0
    /\ n' = 0

(***************************************************************************)
(* sendUDPWebExtQuery (lines 637-656).                                     *)
(***************************************************************************)
\* The attempt is counted and browser.dns.resolve is called (lines 641-643).
WebExtSend ==
    /\ pc = "forQueries"
    /\ qi <= Len(queries)
    /\ Item.kind = "webext"
    /\ dnsAttempts' = SetProp(dnsAttempts, WEBEXT_KEY, PlusOne(dnsAttempts, WEBEXT_KEY))
    /\ sendLog' = Append(sendLog, [key |-> WEBEXT_KEY, nameserver |-> "host",
                                   domain |-> Item.domain, result |-> "pending"])
    /\ pc' = "webextWait"
    /\ UNCHANGED <<measurementID, dnsData, listening, nameservers, queries, qi, i, n,
                   pings, error>>
    /\ UNCHANGED <<netError, keyVars, mainVars, fetchLog, readFailure>>

\* browser.dns.resolve resolves (lines 644-648).  The test of line 645 is
\* (!dnsData[key]) == 0: it holds when dnsData[key] is truthy.
WebExtResolves ==
    /\ pc = "webextWait"
    /\ dnsData' = IF ~FalsyArray(dnsData, WEBEXT_KEY)
                  THEN SetProp(dnsData, WEBEXT_KEY, WebExtAddresses)
                  ELSE dnsData
    /\ sendLog' = Settle("ok")
    /\ NextQuery
    /\ UNCHANGED <<measurementID, dnsAttempts, listening, nameservers, queries, pings,
                   error>>
    /\ UNCHANGED <<netError, keyVars, mainVars, fetchLog, readFailure>>

\* browser.dns.resolve rejects (lines 649-655).
WebExtRejects ==
    /\ pc = "webextWait"
    /\ Failures < MaxFailures
    /\ pings' = sendTelemetry(pings, [reason |-> STUDY_ERROR_UDP_WEBEXT,
                                      errorRRTYPE |-> WEBEXT_KEY,
                                      errorAttempt |-> dnsAttempts[WEBEXT_KEY]])
    /\ sendLog' = Settle("fail")
    /\ NextQuery
    /\ UNCHANGED <<measurementID, dnsData, dnsAttempts, listening, nameservers, queries,
                   error>>
    /\ UNCHANGED <<netError, keyVars, mainVars, fetchLog, readFailure>>

(***************************************************************************)
(* sendUDPQuery (lines 666-704).                                           *)
(***************************************************************************)
\* sendUDPQuery counting the attempt before it encodes the query.
UDPEncode_CountsFirst ==
    /\ pc = "forQueries"
    /\ qi <= Len(queries)
    /\ Item.kind = "udp"
    /\ dnsAttempts' = SetProp(dnsAttempts, Key, PlusOne(dnsAttempts, Key))
    /\ \E encoded \in BOOLEAN :
          IF ~encoded
          THEN /\ pings' = sendTelemetry(pings, [reason |-> STUDY_ERROR_UDP_ENCODE])
               /\ Throw(STUDY_ERROR_UDP_ENCODE)
               /\ UNCHANGED <<i, n>>
          ELSE /\ pc' = "udpLoop"
               /\ i' = 1
               /\ n' = 1
               /\ UNCHANGED <<pings, error>>
    /\ UNCHANGED <<measurementID, dnsData, listening, nameservers, queries,
                   qi, sendLog>>
    /\ UNCHANGED <<netError, keyVars, mainVars, fetchLog, readFailure>>

\* The query is encoded (lines 670-676); DNS_PACKET.encode may throw.
UDPEncode ==
    /\ pc = "forQueries"
    /\ qi <= Len(queries)
    /\ Item.kind = "udp"
    /\ \E encoded \in BOOLEAN :
          IF ~encoded
          THEN /\ pings' = sendTelemetry(pings, [reason |-> STUDY_ERROR_UDP_ENCODE])
               /\ Throw(STUDY_ERROR_UDP_ENCODE)
               /\ UNCHANGED <<i, n>>
          ELSE /\ pc' = "udpLoop"
               /\ i' = 1
               /\ n' = 1
               /\ UNCHANGED <<pings, error>>
    /\ UNCHANGED <<measurementID, dnsData, dnsAttempts, listening, nameservers, queries,
                   qi, sendLog>>
    /\ UNCHANGED <<netError, keyVars, mainVars, fetchLog, readFailure>>

\* The attempt is counted and the query is sent to the nameserver the loops
\* are at (lines 678-682).
UDPSend ==
    /\ pc = "udpLoop"
    /\ dnsAttempts' = SetProp(dnsAttempts, Key, PlusOne(dnsAttempts, Key))
    /\ sendLog' = Append(sendLog, [key |-> Key, nameserver |-> nameservers[n],
                                   domain |-> Item.domain, result |-> "pending"])
    /\ pc' = "udpWait"
    /\ UNCHANGED <<measurementID, dnsData, listening, nameservers, queries, qi, i, n,
                   pings, error>>
    /\ UNCHANGED <<netError, keyVars, mainVars, fetchLog, readFailure>>

\* The nameserver answers (lines 684-690): the answer is kept unless one is
\* already held, and the function returns.
UDPResolves ==
    /\ pc = "udpWait"
    /\ dnsData' = IF FalsyArray(dnsData, Key)
                  THEN SetProp(dnsData, Key, ResponseBytes(nameservers[n]))
                  ELSE dnsData
    /\ sendLog' = Settle("ok")
    /\ NextQuery
    /\ UNCHANGED <<measurementID, dnsAttempts, listening, nameservers, queries, pings,
                   error>>
    /\ UNCHANGED <<netError, keyVars, mainVars, fetchLog, readFailure>>

\* The loops of sendUDPQuery with the pass bound off by one (i < ... for
\* i <= ...): a single pass.
UDPContinue_OnePass ==
    IF n < Len(nameservers)
    THEN pc' = "udpLoop" /\ n' = n + 1 /\ UNCHANGED <<qi, i>>
    ELSE IF i + 1 < RESOLVCONF_ATTEMPTS
    THEN pc' = "udpLoop" /\ n' = 1 /\ i' = i + 1 /\ UNCHANGED qi
    ELSE NextQuery

\* The loops of lines 678-679 move on after a failed round trip: to the
\* next nameserver, then to the next pass, and the function returns when
\* both are exhausted.
UDPContinue ==
    IF n < Len(nameservers)
    THEN pc' = "udpLoop" /\ n' = n + 1 /\ UNCHANGED <<qi, i>>
    ELSE IF i + 1 <= RESOLVCONF_ATTEMPTS
    THEN pc' = "udpLoop" /\ n' = 1 /\ i' = i + 1 /\ UNCHANGED qi
    ELSE NextQuery

\* sendUDPQuery passing on the message of any error of the study, whatever
\* transport it is tagged for.
UDPRejects_AnyStudyError ==
    /\ pc = "udpWait"
    /\ Failures < MaxFailures
    /\ LET message == netError
           errorReason == IF StartsWith(message, "STUDY_ERROR")
                          THEN message ELSE STUDY_ERROR_UDP_MISC
       IN pings' = sendTelemetry(pings, [reason |-> errorReason,
                                         errorRRTYPE |-> Key,
                                         errorAttempt |-> dnsAttempts[Key]])
    /\ sendLog' = Settle("fail")
    /\ UDPContinue
    /\ UNCHANGED <<measurementID, dnsData, dnsAttempts, listening, nameservers, queries,
                   error>>
    /\ UNCHANGED <<netError, keyVars, mainVars, fetchLog, readFailure>>

\* The round trip fails (lines 691-701).
UDPRejects ==
    /\ pc = "udpWait"
    /\ Failures < MaxFailures
    /\ LET message == netError
           errorReason == IF StartsWith(message, "STUDY_ERROR_UDP")
                          THEN message ELSE STUDY_ERROR_UDP_MISC
       IN pings' = sendTelemetry(pings, [reason |-> errorReason,
                                         errorRRTYPE |-> Key,
                                         errorAttempt |-> dnsAttempts[Key]])
    /\ sendLog' = Settle("fail")
    /\ UDPContinue
    /\ UNCHANGED <<measurementID, dnsData, dnsAttempts, listening, nameservers, queries,
                   error>>
    /\ UNCHANGED <<netError, keyVars, mainVars, fetchLog, readFailure>>

(***************************************************************************)
(* sendTCPQuery (lines 710-751).                                           *)
(***************************************************************************)
\* The query is encoded (lines 715-721); DNS_PACKET.streamEncode may throw.
TCPEncode ==
    /\ pc = "forQueries"
    /\ qi <= Len(queries)
    /\ Item.kind = "tcp"
    /\ \E encoded \in BOOLEAN :
          IF ~encoded
          THEN /\ pings' = sendTelemetry(pings, [reason |-> STUDY_ERROR_TCP_ENCODE])
               /\ Throw(STUDY_ERROR_TCP_ENCODE)
               /\ UNCHANGED n
          ELSE /\ pc' = "tcpLoop"
               /\ n' = 1
               /\ UNCHANGED <<pings, error>>
    /\ UNCHANGED <<measurementID, dnsData, dnsAttempts, listening, nameservers, queries,
                   qi, i, sendLog>>
    /\ UNCHANGED <<netError, keyVars, mainVars, fetchLog, readFailure>>

\* sendTCPQuery without the await of line 729: the loop goes on to the next
\* nameserver while the round trip is in flight.
TCPSend_NoAwait ==
    /\ pc = "tcpLoop"
    /\ LET counted == IF FalsyNumber(dnsAttempts, Key)
                      THEN SetProp(dnsAttempts, Key, Num(0))
                      ELSE dnsAttempts
       IN dnsAttempts' = SetProp(counted, Key, PlusOne(counted, Key))
    /\ sendLog' = Append(sendLog, [key |-> Key, nameserver |-> nameservers[n],
                                   domain |-> Item.domain, result |-> "pending"])
    /\ IF n < Len(nameservers)
       THEN pc' = "tcpLoop" /\ n' = n + 1
       ELSE pc' = "tcpWait" /\ n' = n
    /\ UNCHANGED <<measurementID, dnsData, listening, nameservers, queries, qi, i,
                   pings, error>>
    /\ UNCHANGED <<netError, keyVars, mainVars, fetchLog, readFailure>>

\* The attempt is counted, from 0 when the key has no count yet, and the
\* query is sent (lines 723-729).
TCPSend ==
    /\ pc = "tcpLoop"
    /\ LET counted == IF FalsyNumber(dnsAttempts, Key)
                      THEN SetProp(dnsAttempts, Key, Num(0))
                      ELSE dnsAttempts
       IN dnsAttempts' = SetProp(counted, Key, PlusOne(counted, Key))
    /\ sendLog' = Append(sendLog, [key |-> Key, nameserver |-> nameservers[n],
                                   domain |-> Item.domain, result |-> "pending"])
    /\ pc' = "tcpWait"
    /\ UNCHANGED <<measurementID, dnsData, listening, nameservers, queries, qi, i, n,
                   pings, error>>
    /\ UNCHANGED <<netError, keyVars, mainVars, fetchLog, readFailure>>

\* The nameserver answers (lines 731-737).
TCPResolves ==
    /\ pc = "tcpWait"
    /\ dnsData' = IF FalsyArray(dnsData, Key)
                  THEN SetProp(dnsData, Key, ResponseBytes(nameservers[n]))
                  ELSE dnsData
    /\ sendLog' = Settle("ok")
    /\ NextQuery
    /\ UNCHANGED <<measurementID, dnsAttempts, listening, nameservers, queries, pings,
                   error>>
    /\ UNCHANGED <<netError, keyVars, mainVars, fetchLog, readFailure>>

\* The loop of line 723 moves on after a failed round trip, and the
\* function returns when the nameservers are exhausted.
TCPContinue ==
    IF n < Len(nameservers)
    THEN pc' = "tcpLoop" /\ n' = n + 1 /\ UNCHANGED <<qi, i>>
    ELSE NextQuery

\* sendTCPQuery filing an empty answer for the key when the round trip
\* fails.
TCPRejects_StoresEmptyAnswer ==
    /\ pc = "tcpWait"
    /\ Failures < MaxFailures
    /\ LET message == netError
           errorReason == IF StartsWith(message, "STUDY_ERROR_TCP")
                          THEN message ELSE STUDY_ERROR_TCP_MISC
       IN pings' = sendTelemetry(pings, [reason |-> errorReason,
                                         errorRRTYPE |-> Key,
                                         errorAttempt |-> dnsAttempts[Key]])
    /\ dnsData' = SetProp(dnsData, Key, <<>>)
    /\ sendLog' = Settle("fail")
    /\ TCPContinue
    /\ UNCHANGED <<measurementID, dnsAttempts, listening, nameservers, queries,
                   error>>
    /\ UNCHANGED <<netError, keyVars, mainVars, fetchLog, readFailure>>

\* The round trip fails (lines 738-749).
TCPRejects ==
    /\ pc = "tcpWait"
    /\ Failures < MaxFailures
    /\ LET message == netError
           errorReason == IF StartsWith(message, "STUDY_ERROR_TCP")
                          THEN message ELSE STUDY_ERROR_TCP_MISC
       IN pings' = sendTelemetry(pings, [reason |-> errorReason,
                                         errorRRTYPE |-> Key,
                                         errorAttempt |-> dnsAttempts[Key]])
    /\ sendLog' = Settle("fail")
    /\ TCPContinue
    /\ UNCHANGED <<measurementID, dnsData, dnsAttempts, listening, nameservers, queries,
                   error>>
    /\ UNCHANGED <<netError, keyVars, mainVars, fetchLog, readFailure>>

(***************************************************************************)
(* The end of runMeasurement (lines 913-924).                              *)
(***************************************************************************)
\* runMeasurement returning when sendQueries has returned, without the
\* second fetchTest and the report of lines 915-924.
SendQueriesReturns_EndsRun ==
    /\ pc = "forQueries"
    /\ qi > Len(queries)
    /\ pc' = "returned"
    /\ UNCHANGED <<measurementID, dnsData, dnsAttempts, listening, nameservers, queries,
                   qi, i, n, pings, sendLog, error>>
    /\ UNCHANGED <<netError, keyVars, mainVars, fetchLog, readFailure>>

\* sendQueries returns; the payload is built and fetchTest is called again.
SendQueriesReturns ==
    /\ pc = "forQueries"
    /\ qi > Len(queries)
    /\ pc' = "fetchTest2"
    /\ UNCHANGED <<measurementID, dnsData, dnsAttempts, listening, nameservers, queries,
                   qi, i, n, pings, sendLog, error>>
    /\ UNCHANGED <<netError, keyVars, mainVars, fetchLog, readFailure>>

\* runMeasurement submitting the measurement before it runs the second
\* fetch test.
Report_BeforeFetchTest ==
    /\ pc = "fetchTest2"
    /\ \E outcome \in FetchOutcomes :
          /\ fetchLog' = Append(fetchLog, outcome)
          /\ LET submitted == sendTelemetry(pings, [reason |-> STUDY_MEASUREMENT_COMPLETED,
                                                    dnsData |-> dnsData,
                                                    dnsAttempts |-> dnsAttempts])
             IN IF fetchTest(outcome) # ""
                THEN /\ pings' = sendTelemetry(submitted, [reason |-> fetchTest(outcome)])
                     /\ Throw(fetchTest(outcome))
                ELSE /\ pings' = submitted
                     /\ pc' = "done"
                     /\ UNCHANGED error
    /\ UNCHANGED <<measurementID, dnsData, dnsAttempts, listening, nameservers, queries,
                   qi, i, n, sendLog>>
    /\ UNCHANGED <<netError, keyVars, mainVars, readFailure>>

\* The second fetchTest settles (line 921): when it returns, the
\* measurement is submitted (line 924).
Report ==
    /\ pc = "fetchTest2"
    /\ \E outcome \in FetchOutcomes :
          /\ fetchLog' = Append(fetchLog, outcome)
          /\ IF fetchTest(outcome) # ""
             THEN /\ pings' = sendTelemetry(pings, [reason |-> fetchTest(outcome)])
                  /\ Throw(fetchTest(outcome))
             ELSE /\ pings' = sendTelemetry(pings, [reason |-> STUDY_MEASUREMENT_COMPLETED,
                                                    dnsData |-> dnsData,
                                                    dnsAttempts |-> dnsAttempts])
                  /\ pc' = "done"
                  /\ UNCHANGED error
    /\ UNCHANGED <<measurementID, dnsData, dnsAttempts, listening, nameservers, queries,
                   qi, i, n, sendLog>>
    /\ UNCHANGED <<netError, keyVars, mainVars, readFailure>>

Next ==
    \/ Main
    \/ CanUploadReturns
    \/ GetStateReturns
    \/ Listener
    \/ NotificationDropped
    \/ FetchTestReturns
    \/ PlatformInfoReturns
    \/ NameserversReturn
    \/ SendQueries
    \/ WebExtSend
    \/ WebExtResolves
    \/ WebExtRejects
    \/ UDPEncode
    \/ UDPSend
    \/ UDPResolves
    \/ UDPRejects
    \/ TCPEncode
    \/ TCPSend
    \/ TCPResolves
    \/ TCPRejects
    \/ SendQueriesReturns
    \/ Report

Spec == Init /\ [][Next]_vars

(***************************************************************************)
(* The run under fair scheduling.  Every step of Next but the two of the   *)
(* connectivity notification is a stretch of the program's own code        *)
(* between two awaits, enabled by the settlement of the call it awaits:    *)
(* the event loop runs the continuation of a promise once the promise has  *)
(* settled, so when every external call eventually settles a step that     *)
(* stays enabled is eventually taken.  Whether the browser ever delivers   *)
(* the notification is left open.                                          *)
(***************************************************************************)
Proceeds ==
    \/ Main
    \/ CanUploadReturns
    \/ GetStateReturns
    \/ FetchTestReturns
    \/ PlatformInfoReturns
    \/ NameserversReturn
    \/ SendQueries
    \/ WebExtSend
    \/ WebExtResolves
    \/ WebExtRejects
    \/ UDPEncode
    \/ UDPSend
    \/ UDPResolves
    \/ UDPRejects
    \/ TCPEncode
    \/ TCPSend
    \/ TCPResolves
    \/ TCPRejects
    \/ SendQueriesReturns
    \/ Report

\* The message failed round trips carry decides the reason of their error
\* pings and no branch the run takes, so one message stands for all.
LiveInit == Init /\ netError = "NetworkError"

LiveSpec == LiveInit /\ [][Next]_vars /\ WF_vars(Proceeds)

(***************************************************************************)
(* A second run in the same process.  measurementID, dnsData and           *)
(* dnsAttempts are variables of the module (lines 542-546): they are       *)
(* initialised when the module is loaded, and main and runMeasurement      *)
(* assign measurementID only.  When main is called again, as run() of      *)
(* src/unnamed/part_000 does, the three hold what the run before left in   *)
(* them.  pings, sendLog and fetchLog record the second run only.          *)
(***************************************************************************)
\* What a run over one nameserver in which every round trip was answered
\* leaves in dnsData and dnsAttempts (a final state of Spec).
PreviousID == "uuid of the run before"
PreviousData ==
    [key \in {"udpA-N", "tcpA-N", "udpA-U-N", "tcpA-U-N"} |-> ResponseBytes(Addresses[1])]
PreviousAttempts ==
    [key \in {WEBEXT_KEY, "udpA-N", "tcpA-N", "udpA-U-N", "tcpA-U-N"} |->
        IF key \in {"tcpA-N", "tcpA-U-N"} THEN Num(1) ELSE NaN]

\* The final state of a run of Spec that leaves them (it is reachable).
PreviousRunEnded ==
    pc = "done" /\ dnsData = PreviousData /\ dnsAttempts = PreviousAttempts

RerunInit ==
    /\ pc = "main"
    /\ measurementID = PreviousID
    /\ dnsData = PreviousData
    /\ dnsAttempts = PreviousAttempts
    /\ listening = FALSE
    /\ nameservers = <<>>
    /\ queries = <<>>
    /\ qi = 0
    /\ i = 0
    /\ n = 0
    /\ pings = <<>>
    /\ sendLog = <<>>
    /\ error = ""
    /\ netError \in RejectMessages
    /\ keyCall = NoCall
    /\ keyResult = ""
    /\ queryBuf = NoPacket
    /\ captiveStatus = "undefined"
    /\ listenerCalls = 0
    /\ runs = 1
    /\ details = "undefined"
    /\ fetchLog = <<>>
    /\ readFailure = NoFailure

RerunSpec == RerunInit /\ [][Next]_vars

(***************************************************************************)
(* computeKey, the encoders and the work list of the whole catalog, on     *)
(* their own: the arguments of a call are drawn from the transports, the   *)
(* rrtypes of the catalog and every combination of the flags, and the work *)
(* list is built from all of COMMON_QUERIES.                               *)
(***************************************************************************)
Transports == {"udp", "tcp"}
RRTypes == { COMMON_QUERIES[k].rrtype : k \in DOMAIN COMMON_QUERIES }

KeyCalls ==
    [transport : Transports,
     args : { Query(rrtype, "", do, cd, ne) :
                 rrtype \in RRTypes, do \in BOOLEAN, cd \in BOOLEAN, ne \in BOOLEAN },
     perClient : BOOLEAN]

KeyInit ==
    /\ pc = "main"
    /\ measurementID = "undefined"
    /\ dnsData = EmptyObject
    /\ dnsAttempts = EmptyObject
    /\ listening = FALSE
    /\ nameservers = <<>>
    /\ queries = <<>>
    /\ qi = 0
    /\ i = 0
    /\ n = 0
    /\ pings = <<>>
    /\ sendLog = <<>>
    /\ error = ""
    /\ netError = "NetworkError"
    /\ keyCall \in KeyCalls
    /\ keyResult = ""
    /\ queryBuf = NoPacket
    /\ captiveStatus = "undefined"
    /\ listenerCalls = 0
    /\ runs = 0
    /\ details = "undefined"
    /\ fetchLog = <<>>
    /\ readFailure = NoFailure

\* computeKey(transport, args, perClient) is called and returns.
ComputeKey ==
    /\ keyResult = ""
    /\ keyResult' = computeKey(keyCall.transport, keyCall.args, keyCall.perClient)
    /\ UNCHANGED <<pc, measurementID, dnsData, dnsAttempts, listening, nameservers,
                   queries, qi, i, n, pings, sendLog, error, netError, keyCall,
                   queryBuf, mainVars, fetchLog, readFailure>>

\* sendQueries builds its work list from the whole catalog (lines 824-845).
PushCatalog ==
    /\ queries = <<>>
    /\ queries' = BuildQueries(COMMON_QUERIES)
    /\ UNCHANGED <<pc, measurementID, dnsData, dnsAttempts, listening, nameservers,
                   qi, i, n, pings, sendLog, error, netError, keyVars,
                   mainVars, fetchLog, readFailure>>

\* The encoder of the call's transport is called with the arguments
\* sendUDPQuery (line 672) or sendTCPQuery (line 717) gives it for that work
\* item, and draws its transaction ID.
Encode ==
    /\ queryBuf = NoPacket
    /\ LET query == keyCall.args
           item == QueryItems(query)[(IF keyCall.transport = "tcp" THEN 2 ELSE 1)
                                        + (IF keyCall.perClient THEN 2 ELSE 0)]
       IN \E id \in TxIds :
             queryBuf' = IF item.kind = "udp"
                         THEN encodeUDPQuery(item.domain, query.rrtype, query.dnssec_ok,
                                             query.checking_disabled, query.noedns0, id)
                         ELSE encodeTCPQuery(item.domain, query.rrtype, query.dnssec_ok,
                                             query.checking_disabled, id)
    /\ UNCHANGED <<pc, measurementID, dnsData, dnsAttempts, listening, nameservers,
                   queries, qi, i, n, pings, sendLog, error, netError, keyCall,
                   keyResult, mainVars, fetchLog, readFailure>>

KeyNext ==
    \/ ComputeKey
    \/ PushCatalog
    \/ Encode

KeySpec == KeyInit /\ [][KeyNext]_vars

(***************************************************************************)
(* What the run has done so far, read from the logs.                       *)
(***************************************************************************)
\* The round trips issued for a key, in order.
SendsOf(key) == SelectSeq(sendLog, LAMBDA e : e.key = key)

\* The bytes a round trip of the log was answered with.
AnswerOf(e) ==
    IF e.nameserver = "host" THEN WebExtAddresses ELSE ResponseBytes(e.nameserver)

\* The error pings sent for a key, in order.
ErrorsOf(key) ==
    SelectSeq(pings, LAMBDA p : "errorRRTYPE" \in DOMAIN p /\ p.errorRRTYPE = key)

\* The measurement reports submitted.
Reports == SelectSeq(pings, LAMBDA p : p.reason = STUDY_MEASUREMENT_COMPLETED)

\* The work list exists and work item k of it has run to completion.
Built == pc \in {"forQueries", "webextWait", "udpLoop", "udpWait", "tcpLoop", "tcpWait",
                 "fetchTest2", "done"}
       \/ (pc = "thrown" /\ qi > 0)
Completed(k) == Built /\ k \in DOMAIN queries /\ k < qi

\* Every round trip issued for the key has failed.
AllFailed(key) ==
    /\ \E k \in DOMAIN sendLog : sendLog[k].key = key
    /\ \A k \in DOMAIN sendLog : sendLog[k].key = key => sendLog[k].result = "fail"

\* Some round trip issued for the key was answered.
Answered(key) ==
    \E k \in DOMAIN sendLog : sendLog[k].key = key /\ sendLog[k].result = "ok"

\* The first round trip of the key that was answered.
FirstAnswer(key) ==
    LET s == SendsOf(key)
        k == CHOOSE k \in DOMAIN s :
                /\ s[k].result = "ok"
                /\ \A j \in 1..(k - 1) : s[j].result # "ok"
    IN s[k]

\* The keys of the work list.
RunKeys == { ItemKey(queries[k]) : k \in DOMAIN queries }

\* A count that is a number (not NaN) and at least 1.
IsCount(v) == ~v.nan /\ v.n >= 1

\* The errors sendUDPQuery and sendTCPQuery throw when encoding fails.
EncodeErrors == {STUDY_ERROR_UDP_ENCODE, STUDY_ERROR_TCP_ENCODE}

\* The errors fetchTest throws.
FetchErrors == {STUDY_ERROR_FETCH_FAILED, STUDY_ERROR_FETCH_NOT_MATCHED}

\* The test page was fetched and answered with the expected body.
ProbePassed(outcome) == ~outcome.rejected /\ outcome.text = "Hello, world!\n"

\* The reason a probe that did not pass is reported with.
ProbeError(outcome) ==
    IF outcome.rejected THEN STUDY_ERROR_FETCH_FAILED ELSE STUDY_ERROR_FETCH_NOT_MATCHED

\* The ping of an error that has a reason and nothing else.
ErrorPing(reason) == [measurementID |-> measurementID, reason |-> reason]

\* The pings that carry the data or the attempt counts of the sweep.
DataPings ==
    SelectSeq(pings, LAMBDA p : "dnsData" \in DOMAIN p \/ "dnsAttempts" \in DOMAIN p)

\* The probe passed before the sweep and failed after it.
LateProbeFailure ==
    /\ Len(fetchLog) = 2
    /\ ProbePassed(fetchLog[1])
    /\ ~ProbePassed(fetchLog[2])

\* The nameservers a work item of the kind contacts when none answers.
Plan(kind) == IF kind = "udp" THEN nameservers \o nameservers ELSE nameservers

\* The (variant, transport, perClient) triple a work item stands for.
Triple(item) ==
    IF item.kind = "webext" THEN <<"webext">>
    ELSE <<item.kind, item.query, item.perClient>>

\* The suffix a flag adds to a key.
Suffix(flag, token) == IF flag THEN token ELSE ""

\* The name ends with the suffix.
EndsWith(name, suffix) ==
    /\ Len(name) >= Len(suffix)
    /\ SubSeq(name, Len(name) - Len(suffix) + 1, Len(name)) = suffix

\* One of the labels of the domain name (the parts its dots separate) is
\* the label given.
HasLabel(name, label) ==
    \E k \in 1..Len(name) :
        /\ k + Len(label) <= Len(name)
        /\ SubSeq(name, k, k + Len(label)) = label \o "."
        /\ k > 1 => SubSeq(name, k - 1, k - 1) = "."

\* The keys of the work list as sendQueries builds it, before the shuffle.
WorkListKeys ==
    { ItemKey(BuildQueries(Catalog)[k]) : k \in DOMAIN BuildQueries(Catalog) }

\* The keys a report mentions, in dnsAttempts or in dnsData.
KeysOfReport(report) == DOMAIN report.dnsAttempts \cup DOMAIN report.dnsData

\* The work item of the work list that has the key.
ItemOf(key) == queries[CHOOSE k \in DOMAIN queries : ItemKey(queries[k]) = key]

\* The number of round trips a work item issues when none is answered.
PlanLen(item) == IF item.kind = "webext" THEN 1 ELSE Len(Plan(item.kind))

\* The work items built from the catalog entries (not the baseline item).
CatalogItems == { a \in DOMAIN queries : queries[a].kind # "webext" }

(***************************************************************************)
(* Claims.                                                                 *)
(***************************************************************************)

\* C1: at the end of a run, for every key of the work list (UDP, TCP and
\* the host-resolver key), dnsData[key] is set if and only if some round
\* trip of that key was answered, and then it holds the answer of the first
\* one that was.
C1_FirstAnswerKept ==
    pc = "done" =>
        \A key \in RunKeys :
            /\ key \in DOMAIN dnsData <=> Answered(key)
            /\ Answered(key) => dnsData[key] = AnswerOf(FirstAnswer(key))

\* C2: at the end of a run, every value present in dnsAttempts is a number,
\* at least 1, equal to the number of round trips issued for its key, and at
\* most 2 x |nameservers| for a UDP key and |nameservers| for a TCP key.
C2_AttemptsCountSends ==
    pc = "done" =>
        \A k \in DOMAIN queries :
            LET key == ItemKey(queries[k])
            IN key \in DOMAIN dnsAttempts =>
                  /\ IsCount(dnsAttempts[key])
                  /\ dnsAttempts[key].n = Len(SendsOf(key))
                  /\ queries[k].kind = "udp" =>
                        dnsAttempts[key].n <= 2 * Len(nameservers)
                  /\ queries[k].kind = "tcp" =>
                        dnsAttempts[key].n <= Len(nameservers)

\* C3: when a UDP work item has completed with j >= 1 failed round trips
\* followed by an answered one (j = 1: the first nameserver failed, the
\* second answered), there are j error pings for its key, its attempt count
\* is j + 1, dnsData[key] is the answer of the round trip that was answered
\* and no round trip follows it.
C3_RetryThenAnswer ==
    \A k \in DOMAIN queries :
        LET key == ItemKey(queries[k])
            s == SendsOf(key)
        IN (Completed(k) /\ queries[k].kind = "udp" /\ Answered(key) /\ Len(s) >= 2) =>
              /\ s[Len(s)].result = "ok"
              /\ \A j \in 1..(Len(s) - 1) : s[j].result = "fail"
              /\ Len(ErrorsOf(key)) = Len(s) - 1
              /\ key \in DOMAIN dnsAttempts
              /\ dnsAttempts[key] = Num(Len(s))
              /\ key \in DOMAIN dnsData
              /\ dnsData[key] = AnswerOf(s[Len(s)])

\* C4: when every round trip of one key has failed (and neither an encoding
\* nor a fetch test has),
\* the run does not end with an exception: the remaining work items are
\* executed and the run ends with the STUDY_MEASUREMENT_COMPLETED report,
\* in which that key has a non-zero attempt count and no dnsData entry.
C4_AllFailedStillReported ==
    \A k \in DOMAIN queries :
        LET key == ItemKey(queries[k])
        IN (Completed(k) /\ AllFailed(key) /\ pc \in {"done", "thrown"}
                /\ error \notin EncodeErrors \cup FetchErrors) =>
              /\ pc = "done"
              /\ qi > Len(queries)
              /\ Len(Reports) = 1
              /\ key \in DOMAIN Reports[1].dnsAttempts
              /\ IsCount(Reports[1].dnsAttempts[key])
              /\ key \notin DOMAIN Reports[1].dnsData

\* C5: the round trips of a UDP or TCP work item follow the nameserver
\* list in priority order (twice over for UDP), each is issued only after
\* the one before it has failed, and an item that completes without an
\* answer has issued exactly 2 x |nameservers| round trips if it is UDP and
\* |nameservers| if it is TCP.
C5_FullSweepInOrder ==
    \A k \in DOMAIN queries :
        LET key == ItemKey(queries[k])
            s == SendsOf(key)
            plan == Plan(queries[k].kind)
        IN (Built /\ queries[k].kind \in {"udp", "tcp"}) =>
              /\ Len(s) <= Len(plan)
              /\ \A j \in DOMAIN s : s[j].nameserver = plan[j]
              /\ \A j \in 1..(Len(s) - 1) : s[j].result = "fail"
              /\ (Completed(k) /\ ~Answered(key)) => Len(s) = Len(plan)

\* A UDP work item has completed with two passes over two nameservers, all
\* failed.
C5_Witness ==
    \E k \in DOMAIN queries :
        /\ Completed(k)
        /\ queries[k].kind = "udp"
        /\ Len(nameservers) = 2
        /\ AllFailed(ItemKey(queries[k]))
        /\ Len(SendsOf(ItemKey(queries[k]))) = 4

\* C6: when the encoding of one work item has failed and the run has ended,
\* every work item has been executed and the final report has been sent.
C6_EncodeFailureIsLocal ==
    (error \in EncodeErrors /\ pc \in {"done", "thrown"}) =>
        /\ pc = "done"
        /\ qi > Len(queries)
        /\ Len(Reports) = 1

\* C7: the step in which the encoding of a work item fails sends exactly one
\* encode-error ping (the one of the item's transport) and changes neither
\* dnsAttempts nor dnsData nor the round trips issued; and after it the item
\* has no attempt count, no data and no round trip, and the run has sent one
\* encode-error ping.
C7_EncodeFailureAbandons ==
    /\ [][ (error = "" /\ error' \in EncodeErrors) =>
              /\ error' = IF Item.kind = "udp" THEN STUDY_ERROR_UDP_ENCODE
                          ELSE STUDY_ERROR_TCP_ENCODE
              /\ pings' = Append(pings, [measurementID |-> measurementID,
                                         reason |-> error'])
              /\ dnsAttempts' = dnsAttempts
              /\ dnsData' = dnsData
              /\ sendLog' = sendLog ]_vars
    /\ [](error \in EncodeErrors =>
              /\ Key \notin DOMAIN dnsAttempts
              /\ Key \notin DOMAIN dnsData
              /\ SendsOf(Key) = <<>>
              /\ Len(SelectSeq(pings, LAMBDA p : p.reason \in EncodeErrors)) = 1)

\* The encoding of a work item has failed after other work items have run.
C7_Witness ==
    /\ pc = "thrown"
    /\ error \in EncodeErrors
    /\ qi >= 3
    /\ Len(sendLog) >= 2
    /\ DOMAIN dnsData # {}

C9_KeyExamples ==
    (keyResult # "" /\ keyCall.args.rrtype = "A") =>
        /\ keyCall = [transport |-> "tcp", args |-> Query("A", "", FALSE, FALSE, FALSE),
                      perClient |-> FALSE] => keyResult = "tcp-A"
        /\ keyCall = [transport |-> "tcp", args |-> Query("A", "", FALSE, FALSE, FALSE),
                      perClient |-> TRUE] => keyResult = "tcp-A-U"
        /\ keyCall = [transport |-> "udp", args |-> Query("A", "", TRUE, FALSE, FALSE),
                      perClient |-> FALSE] => keyResult = "udp-ADO"
        /\ keyCall = [transport |-> "udp", args |-> Query("A", "", FALSE, TRUE, FALSE),
                      perClient |-> FALSE] => keyResult = "udp-ACD"
        /\ keyCall = [transport |-> "udp", args |-> Query("A", "", FALSE, FALSE, TRUE),
                      perClient |-> TRUE] => keyResult = "udp-A-N-U"

\* C10: in the work list built from the whole catalog, two work items that
\* stand for different (variant, transport, perClient) triples have
\* different keys.
C10_KeysInjective ==
    \A a \in DOMAIN queries, b \in DOMAIN queries :
        Triple(queries[a]) # Triple(queries[b]) =>
            ItemKey(queries[a]) # ItemKey(queries[b])

\* The work list of the whole catalog is built: the baseline item and four
\* items for each of the catalog entries, among them the two A entries that
\* differ in noedns0 only.
C10_Witness ==
    /\ Len(queries) = 1 + 4 * Len(COMMON_QUERIES)
    /\ \E a \in DOMAIN queries, b \in DOMAIN queries :
          /\ ItemKey(queries[a]) = "udpA-U"
          /\ ItemKey(queries[b]) = "udpA-U-N"

\* C11: in the work list built from the whole catalog, a work item that is
\* not per-client queries variant.prefix + APEX_DOMAIN_NAME (the bare apex
\* when the prefix is empty), a per-client work item queries a name that
\* ends with the label "pc" followed by the apex domain, and two work items
\* with the same key, variant and perClient query the same name.
C11_DomainOfItem ==
    /\ \A a \in CatalogItems :
          LET item == queries[a]
          IN /\ ~item.perClient =>
                    /\ item.domain = item.query.prefix \o APEX_DOMAIN_NAME
                    /\ item.query.prefix = "" => item.domain = APEX_DOMAIN_NAME
             /\ item.perClient =>
                    EndsWith(item.domain, "." \o PER_CLIENT_PREFIX \o APEX_DOMAIN_NAME)
    /\ \A a \in CatalogItems, b \in CatalogItems :
          ( /\ queries[a].key = queries[b].key
            /\ queries[a].query = queries[b].query
            /\ queries[a].perClient = queries[b].perClient )
              => queries[a].domain = queries[b].domain

\* The work list of the whole catalog is built: it has per-client and shared
\* items, for both transports, of a variant with a prefix and of one without.
C11_Witness ==
    /\ \E a \in CatalogItems :
          /\ queries[a].kind = "tcp" /\ ~queries[a].perClient
          /\ queries[a].domain = "httpssvc.dnssec-experiment-moz.net"
    /\ \E a \in CatalogItems :
          /\ queries[a].kind = "udp" /\ queries[a].perClient
          /\ queries[a].domain = "udpA-U.pc.dnssec-experiment-moz.net"
    /\ \E a \in CatalogItems :
          /\ queries[a].kind = "tcp" /\ queries[a].perClient
          /\ queries[a].query.prefix = SMIMEA_PREFIX

\* C12: in the work list built from the whole catalog, the name queried by
\* every per-client work item, UDP or TCP, has the item's own key as a
\* label: it is prefix + key + "." + "pc." + apex for the key of that item.
C12_OwnKeyInDomain ==
    \A a \in CatalogItems :
        LET item == queries[a]
        IN item.perClient =>
              /\ HasLabel(item.domain, item.key)
              /\ item.domain = item.query.prefix \o item.key \o "."
                                    \o PER_CLIENT_PREFIX \o APEX_DOMAIN_NAME

\* C13: the work list built from the whole catalog has, for each catalog
\* entry, exactly the four items {udp, tcp} x {shared, per-client}, and for
\* the baseline the host-resolver item and its per-client counterpart:
\* 2 + 4 x |catalog| items.
C13_WorkListSize ==
    queries # <<>> =>
        /\ \A k \in DOMAIN COMMON_QUERIES :
              \A kind \in {"udp", "tcp"}, perClient \in BOOLEAN :
                  Cardinality({ a \in CatalogItems :
                                  /\ queries[a].query = COMMON_QUERIES[k]
                                  /\ queries[a].kind = kind
                                  /\ queries[a].perClient = perClient }) = 1
        /\ Cardinality({ a \in DOMAIN queries : queries[a].kind = "webext" }) = 2
        /\ Len(queries) = 2 + 4 * Len(COMMON_QUERIES)

\* C14: the keys of the shuffled work list are the keys of the work list as
\* built, whatever the random draws of the shuffle, and every completed
\* report mentions exactly these keys: the key set of a report is the same
\* set in every run, so no two runs differ in it.
C14_ReportKeysFixed ==
    /\ Built => RunKeys = WorkListKeys
    /\ \A k \in DOMAIN Reports : KeysOfReport(Reports[k]) = WorkListKeys

\* A report has been sent by a run whose shuffle changed the order of the
\* work list and in which round trips failed.
C14_Witness ==
    /\ pc = "done"
    /\ Len(Reports) = 1
    /\ queries # BuildQueries(Catalog)
    /\ Failures >= 2
    /\ DOMAIN dnsData # {}

\* C15: at most one round trip is in flight, and it is the last one issued;
\* the round trips of one work item are consecutive (once a round trip of
\* another key is issued, none of the earlier key follows); and when the first
\* round trip of the next work item is issued, the work item before it has
\* been answered or has gone through all of its nameservers and passes.
C15_OneAtATime ==
    /\ \A k \in DOMAIN sendLog : sendLog[k].result = "pending" => k = Len(sendLog)
    /\ \A a \in 1..(Len(sendLog) - 1) :
          sendLog[a + 1].key # sendLog[a].key =>
              \A c \in (a + 1)..Len(sendLog) : sendLog[c].key # sendLog[a].key
    /\ \A k \in 1..(Len(sendLog) - 1) :
          sendLog[k + 1].key # sendLog[k].key =>
              \/ sendLog[k].result = "ok"
              \/ /\ sendLog[k].result = "fail"
                 /\ Len(SelectSeq(SubSeq(sendLog, 1, k),
                                  LAMBDA e : e.key = sendLog[k].key))
                        = PlanLen(ItemOf(sendLog[k].key))

\* A round trip is in flight after a UDP work item has failed on two passes
\* over two nameservers and another work item has been answered.
C15_Witness ==
    /\ pc \in {"udpWait", "tcpWait", "webextWait"}
    /\ sendLog[Len(sendLog)].result = "pending"
    /\ \E k \in DOMAIN queries :
          /\ Completed(k)
          /\ queries[k].kind = "udp"
          /\ AllFailed(ItemKey(queries[k]))
          /\ Len(SendsOf(ItemKey(queries[k]))) = 4
    /\ \E k \in DOMAIN sendLog : sendLog[k].result = "ok"

\* C16: when the probe has passed before the sweep and failed after it, the
\* run has emitted a report that carries the dnsData and dnsAttempts of the
\* sweep.
C16_LateFailureStillReports ==
    LateProbeFailure =>
        \E k \in DOMAIN DataPings :
            /\ DataPings[k].dnsData = dnsData
            /\ DataPings[k].dnsAttempts = dnsAttempts

\* C16, amended: when the probe has passed before the sweep and failed
\* after it, the run has ended with the error of that probe, its last ping
\* is the error ping with that reason and nothing else, and no ping of the
\* run carries dnsData or dnsAttempts.
C16_LateFailureEndsRun ==
    LateProbeFailure =>
        /\ pc = "thrown"
        /\ error = ProbeError(fetchLog[2])
        /\ pings[Len(pings)] = ErrorPing(error)
        /\ DataPings = <<>>
        /\ Reports = <<>>

\* The probe has failed after a sweep in which answers were stored and
\* round trips failed.
C16_Witness ==
    /\ LateProbeFailure
    /\ qi > Len(queries)
    /\ DOMAIN dnsData # {}
    /\ Failures >= 1

C18_DenialIsSilent ==
    error = STUDY_ERROR_TELEMETRY_CANT_UPLOAD =>
        /\ pc = "thrown"
        /\ pings = <<>>
        /\ sendLog = <<>>
        /\ ~listening
        /\ listenerCalls = 0
        /\ runs = 0
        /\ fetchLog = <<>>

\* canUpload has returned false.
C18_Witness ==
    /\ error = STUDY_ERROR_TELEMETRY_CANT_UPLOAD
    /\ measurementID = "uuid"
    /\ captiveStatus = "undefined"

C20_ListenerOneShot ==
    /\ [](/\ listenerCalls <= 1
          /\ runs <= 1
          /\ runs = 1 => ~listening
          /\ listenerCalls = 1 => (runs = 1 /\ captiveStatus \in {"unknown", "locked_portal"})
          /\ listening => (pc = "returned" /\ runs = 0))
    /\ [][listenerCalls' # listenerCalls =>
              /\ listening /\ ~listening'
              /\ listenerCalls = 0 /\ listenerCalls' = 1
              /\ runs = 0 /\ runs' = 1]_vars

\* The measurement started by the listener has run to its report.
C20_Witness ==
    /\ listenerCalls = 1
    /\ runs = 1
    /\ ~listening
    /\ pc = "done"

\* C21: always, once the first probe of a run has passed (the run has
\* reached the measurement), exactly one STUDY_START ping has been
\* submitted, it carries the run identifier and it is the first ping of the
\* run, and until then no STUDY_START ping has been submitted,
\* readNameservers has not been called, no round trip has been issued and
\* no report sent; and the step that submits the STUDY_START ping is taken
\* when the first probe returns, before readNameservers is called, with no
\* ping submitted and no round trip issued before it.
C21_StartPingFirst ==
    /\ [](LET starts == { k \in DOMAIN pings : pings[k].reason = STUDY_START }
          IN IF Len(fetchLog) >= 1 /\ ProbePassed(fetchLog[1])
             THEN /\ starts = {1}
                  /\ pings[1] = [measurementID |-> measurementID, reason |-> STUDY_START]
                  /\ measurementID = "uuid"
             ELSE /\ starts = {}
                  /\ pc \notin {"getPlatformInfo", "readNameserversOS", "sendQueries"}
                  /\ readFailure = NoFailure
                  /\ nameservers = <<>>
                  /\ sendLog = <<>>
                  /\ Reports = <<>>)
    /\ [][(pings' # pings /\ pings'[Len(pings')].reason = STUDY_START) =>
              /\ pc = "fetchTest1" /\ pc' = "getPlatformInfo"
              /\ pings = <<>>
              /\ nameservers = <<>> /\ nameservers' = <<>>
              /\ sendLog = <<>> /\ sendLog' = <<>>]_vars

\* A run has sent its report after round trips failed: the start ping, the
\* error pings and the report have all been submitted.
C21_Witness ==
    /\ pc = "done"
    /\ Len(Reports) = 1
    /\ pings[Len(pings)].reason = STUDY_MEASUREMENT_COMPLETED
    /\ Failures >= 1
    /\ Len(pings) >= 3

\* The reason readNameservers reports a failure with.
ReasonOfFailure(failure) ==
    IF failure.cause = "platform not supported" THEN STUDY_ERROR_NAMESERVERS_OS_NOT_SUPPORTED
    ELSE IF failure.cause = "empty list" THEN STUDY_ERROR_NAMESERVERS_NOT_FOUND
    ELSE IF failure.cause = "invalid address" THEN STUDY_ERROR_NAMESERVERS_INVALID_ADDR
    ELSE IF failure.message \in {STUDY_ERROR_NAMESERVERS_OS_NOT_SUPPORTED,
                                 STUDY_ERROR_NAMESERVERS_NOT_FOUND,
                                 STUDY_ERROR_NAMESERVERS_INVALID_ADDR,
                                 STUDY_ERROR_NAMESERVERS_MISC}
    THEN failure.message
    ELSE STUDY_ERROR_NAMESERVERS_MISC

\* C22: always, when readNameservers has failed (the platform is not supported, a
\* collaborator rejected, the list is empty or holds an address that is not
\* an IP literal), the run has ended with the error of that failure, its
\* last ping is the error ping with that reason, no work list was built, no
\* round trip issued and no report sent; and a work list is built and round
\* trips are issued only with a list that is not empty and holds IP literals
\* only.
C22_NameserversFailureAborts ==
    [](/\ readFailure # NoFailure =>
             /\ pc = "thrown"
             /\ error = ReasonOfFailure(readFailure)
             /\ pings[Len(pings)] = ErrorPing(error)
             /\ queries = <<>>
             /\ sendLog = <<>>
             /\ Reports = <<>>
       /\ (pc = "sendQueries" \/ queries # <<>> \/ sendLog # <<>> \/ Reports # <<>>) =>
             /\ readFailure = NoFailure
             /\ nameservers # <<>>
             /\ \A k \in DOMAIN nameservers : nameservers[k] # NotAnAddress)

\* readNameservers was given a list that holds an address that is not an
\* IP literal, and the run has ended.
C22_Witness ==
    /\ readFailure.cause = "invalid address"
    /\ pc = "thrown"
    /\ error = STUDY_ERROR_NAMESERVERS_INVALID_ADDR
    /\ Len(pings) = 2

\* The bit is set in the flags.
HasBit(flags, bit) == (flags \div bit) % 2 = 1

\* The OPT records among the additional records of a packet.
OptRecords(packet) == SelectSeq(packet.additionals, LAMBDA r : r.type = "OPT")

\* The OPT record has the DNSSEC-OK bit set.
HasDO(opt) == "flags" \in DOMAIN opt /\ HasBit(opt.flags, DNSSEC_OK)

\* C23: the packet encodeUDPQuery builds for a query with noedns0 set has
\* no OPT record, whether dnssec_ok is set or not.
C23_NoEdns0NoOPT ==
    (queryBuf # NoPacket /\ keyCall.transport = "udp" /\ keyCall.args.noedns0) =>
        OptRecords(queryBuf) = <<>>

\* C30: the packet an encoder builds has the recursion-desired flag set,
\* the checking-disabled flag set iff checking_disabled, and exactly one
\* question (the rrtype, for a name under the apex domain); built by
\* encodeUDPQuery without noedns0 it has exactly one additional record, an
\* OPT record with payload size 4096 whose DNSSEC-OK bit is set iff
\* dnssec_ok; built by encodeTCPQuery it has one OPT record with the
\* DNSSEC-OK bit set and no payload size when dnssec_ok, and no additional
\* record otherwise.
C30_EncodedFlagsAndOPT ==
    queryBuf # NoPacket =>
        LET args == keyCall.args
            opts == OptRecords(queryBuf)
        IN /\ queryBuf.type = "query"
           /\ queryBuf.id \in MIN_TXID..MAX_TXID
           /\ HasBit(queryBuf.flags, RECURSION_DESIRED)
           /\ HasBit(queryBuf.flags, CHECKING_DISABLED) <=> args.checking_disabled
           /\ queryBuf.flags = 256 + (IF args.checking_disabled THEN 16 ELSE 0)
           /\ Len(queryBuf.questions) = 1
           /\ queryBuf.questions[1].type = args.rrtype
           /\ EndsWith(queryBuf.questions[1].name, APEX_DOMAIN_NAME)
           /\ (keyCall.transport = "udp" /\ ~args.noedns0) =>
                 /\ Len(queryBuf.additionals) = 1
                 /\ Len(opts) = 1
                 /\ opts[1].udpPayloadSize = 4096
                 /\ HasDO(opts[1]) <=> args.dnssec_ok
           /\ (keyCall.transport = "tcp" /\ args.dnssec_ok) =>
                 /\ Len(queryBuf.additionals) = 1
                 /\ Len(opts) = 1
                 /\ HasDO(opts[1])
                 /\ "udpPayloadSize" \notin DOMAIN opts[1]
           /\ (keyCall.transport = "tcp" /\ ~args.dnssec_ok) =>
                 queryBuf.additionals = <<>>

\* encodeUDPQuery has built the packet of a query with dnssec_ok and
\* checking_disabled set and the largest transaction ID.
C30_Witness ==
    /\ queryBuf # NoPacket
    /\ keyCall.transport = "udp"
    /\ keyCall.args.dnssec_ok /\ keyCall.args.checking_disabled /\ ~keyCall.args.noedns0
    /\ queryBuf.id = MAX_TXID
    /\ queryBuf.flags = 272
    /\ Len(queryBuf.additionals) = 1

\* C24: the second of two runs in one process starts (at its first
\* suspension inside runMeasurement) with a run identifier other than the
\* first run's, no attempt count and no data, and every answer in its
\* report is that of a round trip of the second run.
C24_RunsStartFresh ==
    runs = 2 =>
        /\ pc = "fetchTest1" =>
              /\ measurementID # PreviousID
              /\ dnsAttempts = EmptyObject
              /\ dnsData = EmptyObject
        /\ \A k \in DOMAIN Reports :
              \A key \in DOMAIN Reports[k].dnsData :
                  /\ Answered(key)
                  /\ Reports[k].dnsData[key] = AnswerOf(FirstAnswer(key))

\* C25: every completed report carries the error log of the run, in order,
\* as dnsQueryErrors, and a flag hasErrors that is true iff a round trip of
\* the run failed.
C25_ReportCarriesErrors ==
    \A k \in DOMAIN Reports :
        /\ "dnsQueryErrors" \in DOMAIN Reports[k]
        /\ "hasErrors" \in DOMAIN Reports[k]
        /\ Len(Reports[k].dnsQueryErrors) = Failures
        /\ Reports[k].hasErrors <=> (Failures > 0)

\* The number of round trips issued for the key so far, the one in flight
\* included.
SendCount(key) == Cardinality({ k \in DOMAIN sendLog : sendLog[k].key = key })

\* C26: for every round trip issued, on every transport, the attempt count
\* of its key already includes it while it is in flight, and still does
\* once it has been answered or has failed: the count of a key is the
\* number of round trips issued for it.
C26_CountedBeforeSend ==
    \A k \in DOMAIN sendLog :
        LET key == sendLog[k].key
        IN /\ key \in DOMAIN dnsAttempts
           /\ dnsAttempts[key] = Num(SendCount(key))

\* C27: the step in which a UDP round trip fails submits one error ping,
\* whose reason is the message of the failure when the message begins with
\* STUDY_ERROR_UDP, and STUDY_ERROR_UDP_MISC when it is tagged for TCP or
\* not tagged at all; the step in which a TCP round trip fails submits one
\* whose reason is the message when it begins with STUDY_ERROR_TCP, and
\* STUDY_ERROR_TCP_MISC when it is tagged for UDP or not tagged.
C27_ReasonByTransport ==
    [][(sendLog' # sendLog /\ sendLog'[Len(sendLog')].result = "fail"
            /\ Item.kind \in {"udp", "tcp"}) =>
          /\ Len(pings') = Len(pings) + 1
          /\ pings'[Len(pings')].errorRRTYPE = Key
          /\ Item.kind = "udp" =>
                pings'[Len(pings')].reason = IF netError = "STUDY_ERROR_UDP_TIMEOUT"
                                             THEN "STUDY_ERROR_UDP_TIMEOUT"
                                             ELSE STUDY_ERROR_UDP_MISC
          /\ Item.kind = "tcp" =>
                pings'[Len(pings')].reason = IF netError = "STUDY_ERROR_TCP_TIMEOUT"
                                             THEN "STUDY_ERROR_TCP_TIMEOUT"
                                             ELSE STUDY_ERROR_TCP_MISC]_vars

\* Round trips of both transports have failed with an error tagged for
\* TCP: the UDP one is recorded as MISC, the TCP one with its message.
C27_Witness ==
    /\ netError = "STUDY_ERROR_TCP_TIMEOUT"
    /\ \E k \in DOMAIN pings : pings[k].reason = STUDY_ERROR_UDP_MISC
    /\ \E k \in DOMAIN pings : pings[k].reason = "STUDY_ERROR_TCP_TIMEOUT"

\* The error records of the run: the pings that name a key, in order.
ErrorRecords == SelectSeq(pings, LAMBDA p : "errorRRTYPE" \in DOMAIN p)

\* C28: the error records are as many as the failed round trips, in the
\* order of the failures; the record of a failed round trip names the key
\* of its work item and, as its attempt number, the ordinal of that round
\* trip among the round trips of the key (1 for the first); an answered
\* round trip has no record.
C28_OneRecordPerFailure ==
    /\ Len(ErrorRecords) = Failures
    /\ \A k \in DOMAIN sendLog :
          sendLog[k].result = "fail" =>
              LET j == Cardinality({ a \in 1..k : sendLog[a].result = "fail" })
                  ordinal == Cardinality({ a \in 1..k : sendLog[a].key = sendLog[k].key })
              IN /\ ErrorRecords[j].errorRRTYPE = sendLog[k].key
                 /\ ErrorRecords[j].errorAttempt = Num(ordinal)

\* The object has the same entry, or no entry, under the key before and
\* after.
SameEntry(before, after, key) ==
    /\ key \in DOMAIN before <=> key \in DOMAIN after
    /\ key \in DOMAIN before => after[key] = before[key]

\* C29: only a step of a round trip (its issue, its answer or its failure)
\* changes dnsData or dnsAttempts; such a step leaves the entries of every
\* key other than the key of its work item as they were, in both; and the
\* step in which a round trip fails leaves dnsData as it was for every key.
C29_OwnKeyOnly ==
    [][ /\ (dnsData' # dnsData \/ dnsAttempts' # dnsAttempts) => sendLog' # sendLog
        /\ sendLog' # sendLog =>
              LET sent == sendLog'[Len(sendLog')]
              IN /\ sent.key = Key
                 /\ \A key \in (DOMAIN dnsData \cup DOMAIN dnsData') \ {sent.key} :
                       SameEntry(dnsData, dnsData', key)
                 /\ \A key \in (DOMAIN dnsAttempts \cup DOMAIN dnsAttempts') \ {sent.key} :
                       SameEntry(dnsAttempts, dnsAttempts', key)
                 /\ sent.result = "fail" => dnsData' = dnsData
                 /\ sent.result # "pending" => dnsAttempts' = dnsAttempts ]_vars

\* A work item has completed with every round trip failed and no answer
\* filed, after other work items had their answers filed.
C29_Witness ==
    \E k \in DOMAIN queries :
        /\ Completed(k)
        /\ k >= 2
        /\ queries[k].kind = "tcp"
        /\ AllFailed(ItemKey(queries[k]))
        /\ ItemKey(queries[k]) \notin DOMAIN dnsData
        /\ DOMAIN dnsData # {}


\* The statuses runMeasurement goes on with.
Online == {"unlocked_portal", "not_captive", "clear"}

\* C31: always, when runMeasurement was called with a status other than
\* unlocked_portal, not_captive and clear (the notification delivered
\* captive), the run has ended with the captive-portal error, that error
\* ping is the only ping of the run (so no start ping), no probe was made,
\* readNameservers was not called and no round trip was issued; a probe,
\* a start ping, a read of the nameservers or a round trip is only ever
\* made in a run whose status is one of the three; and the step that calls
\* runMeasurement with another status submits exactly one ping, the
\* captive-portal error ping.
C31_OnlyOnlineProceeds ==
    /\ [](/\ (runs >= 1 /\ details \notin Online) =>
                /\ pc = "thrown"
                /\ error = STUDY_ERROR_CAPTIVE_PORTAL_FAILED
                /\ pings = <<ErrorPing(STUDY_ERROR_CAPTIVE_PORTAL_FAILED)>>
                /\ fetchLog = <<>>
                /\ readFailure = NoFailure
                /\ nameservers = <<>>
                /\ queries = <<>>
                /\ sendLog = <<>>
          /\ (\/ fetchLog # <<>>
              \/ \E k \in DOMAIN pings : pings[k].reason = STUDY_START
              \/ readFailure # NoFailure
              \/ nameservers # <<>>
              \/ sendLog # <<>>
              \/ pc \in {"fetchTest1", "getPlatformInfo", "readNameserversOS", "sendQueries"}
              \/ Built) =>
                (runs = 1 /\ details \in Online))
    /\ [][(runs' # runs /\ details' \notin Online) =>
              /\ pings' = Append(pings, ErrorPing(STUDY_ERROR_CAPTIVE_PORTAL_FAILED))
              /\ pc' = "thrown"
              /\ UNCHANGED <<fetchLog, nameservers, sendLog>>]_vars

\* The notification delivered captive to the listener main registered, and
\* the run has ended.
C31_Witness ==
    /\ details = "captive"
    /\ listenerCalls = 1
    /\ captiveStatus \in {"unknown", "locked_portal"}
    /\ pc = "thrown"
    /\ Len(pings) = 1

\* main has read a connectivity state it runs the measurement on at once.
Connected == captiveStatus \in {"not_captive", "unlocked_portal"}

\* The run has ended on a condition the claim sets aside: readNameservers
\* failed, or the encoding of a query failed.
SetAside == readFailure # NoFailure \/ error \in EncodeErrors

Occurrences(list, item) == Cardinality({ k \in DOMAIN list : list[k] = item })

\* The positions of sendLog at which round trips of the key begin: the
\* first round trip, or one that follows a round trip of another key.
Blocks(key) ==
    { j \in DOMAIN sendLog :
        /\ sendLog[j].key = key
        /\ (j = 1 \/ sendLog[j - 1].key # key) }

\* C33: whatever the random draws, the step that shuffles the work list
\* (the only step that changes it) leaves a list that has the length of the
\* list built in catalog order and holds each item of that list exactly
\* once, and nothing else; always, the work items the loop has gone
\* through have each been executed exactly once (their round trips form
\* one block of the log), the items it has not come to have not been
\* executed, and when the sweep is over it has gone through all of them;
\* and the loop only ever moves from one position of the list to the next.
C33_ShuffleIsPermutation ==
    /\ [][queries' # queries =>
              LET built == BuildQueries(Catalog)
              IN /\ queries = <<>>
                 /\ Len(queries') = Len(built)
                 /\ \A k \in DOMAIN built : Occurrences(queries', built[k]) = 1
                 /\ \A k \in DOMAIN queries' : Occurrences(built, queries'[k]) = 1]_vars
    /\ [](queries # <<>> =>
            /\ \A k \in DOMAIN queries :
                  /\ k < qi => Cardinality(Blocks(ItemKey(queries[k]))) = 1
                  /\ k = qi => Cardinality(Blocks(ItemKey(queries[k]))) <= 1
                  /\ k > qi => Blocks(ItemKey(queries[k])) = {}
            /\ pc \in {"fetchTest2", "done"} => qi = Len(queries) + 1)
    /\ [][qi' # qi => qi' = qi + 1]_vars

\* The shuffle has reversed the two ends of the work list and moved the
\* middle, and the sweep has gone through the whole list.
C33_Witness ==
    /\ queries # <<>>
    /\ queries[1] = BuildQueries(Catalog)[Len(queries)]
    /\ queries[Len(queries)] = BuildQueries(Catalog)[1]
    /\ queries[3] # BuildQueries(Catalog)[3]
    /\ qi = Len(queries) + 1
    /\ pc = "fetchTest2"

\* The pings of the run that follow its start ping.
PingsAfterStart == SubSeq(pings, 2, Len(pings))

\* C34: when readNameservers has failed, for whichever cause, it has
\* submitted exactly one ping (the one ping of the run after the start
\* ping), and the reason of that ping is the message of the error it threw.
C34_OnePingPerFailure ==
    readFailure # NoFailure =>
        /\ pc = "thrown"
        /\ Len(PingsAfterStart) = 1
        /\ PingsAfterStart[1] = ErrorPing(error)
====
